---- MODULE Spec2Model ----
(***************************************************************************)
(* Model of the modelindexer.Indexer (src/unnamed/part_000): concurrent    *)
(* ProcessBatch callers, the flush timer and its callback, the flush       *)
(* workers of the errgroup, and Close.                                     *)
(*                                                                         *)
(* One action is one atomic step of one goroutine.  Steps are cut at the   *)
(* accesses to state that is shared without a lock (the atomic counters,   *)
(* the available channel, the timer, the errgroup): what a goroutine does  *)
(* to state protected by a lock it holds is folded into the step that      *)
(* precedes its next shared access.                                        *)
(***************************************************************************)
EXTENDS Naturals, Integers, Sequences, FiniteSets

\* ------------------------------------------------------------- bounds
\* Config.MaxRequests: number of bulk buffers created by New.
MaxRequests == 2
\* Config.FlushBytes: the size threshold.
FlushBytes == 2
\* Total number of events submitted over a run, all callers together.
MaxEvents == 3
\* Longest batch handed to one ProcessBatch call.
MaxBatch == 2
\* Events submitted in the runs of SpecBlocked: with MaxRequests + 2 events
\* one caller can wait for a buffer while another waits for the fill lock.
MaxEventsBlocked == 4

\* Concurrent ProcessBatch callers and Close callers.
Procs == {"p1", "p2"}

\* Bounds of the pooled-reader model: pooled readers that may be constructed,
\* bytes of an encoded document, bytes a Read call asks for, and events that
\* take a pooled reader.
MaxReaders == 3
MaxDoc == 2
MaxChunk == 2
MaxCheckouts == 4
Readers == 1..MaxReaders
Closers == {"c1"}
\* Bytes one Add charges for an event (metadata line plus body line): the
\* smallest and the largest event of a run.
MaxSize == 3
Sizes == {1, MaxSize}

Nil == 0
Bufs == 1..MaxRequests
None == "none"

VARIABLES
    eventsAdded, eventsActive, eventsFailed,   \* the atomic counters
    available,      \* chan *bulkIndexer: FIFO of idle buffer ids
    active,         \* i.active: a buffer id or Nil
    bufItems,       \* per buffer: the items Add appended since the last Reset
    closing,        \* i.closing
    closedCh,       \* i.closed has been closed
    watcher,        \* Close's goroutine that closes i.closed
    closeDone,      \* Close's local channel done has been closed
    timerSet,       \* i.timer != nil
    timerArmed,     \* the timer is scheduled and has neither fired nor been stopped
    cbPending,      \* flushActive goroutines the timer started that wait for activeMu
    muW,            \* writer that holds i.mu's writer mutex (pending or holding), or None
    readers,        \* callers holding i.mu in shared mode
    activeMu,       \* holder of i.activeMu, or None
    task,           \* per buffer: the flush task of the errgroup that owns it
    gErr,           \* errgroup: the first error a task returned
    panicked,       \* a flush task was started with a nil buffer
    pc, rem, ctxDone,             \* ProcessBatch callers
    lastRet,        \* the value of the latest ProcessBatch return
    cpc, cctx, cret, cfirst,      \* Close callers
    submitted,      \* ghost: events handed to ProcessBatch calls so far
    nextId,         \* ghost: identity of the last appended event
    issued,         \* ghost: the bulk requests issued: handoff number -> event ids sent
    nHandoff,       \* ghost: number of handoffs (flush tasks started)
    succeeded,      \* ghost: items whose flush finished without being counted failed
    anyFail,        \* ghost: some flush task has returned an error
    closeHand,      \* ghost: the handoff Close made: its number and the events handed off
    metering,       \* ghost: whether bytesIn is kept (constant over a behaviour)
    quota,          \* events the callers submit in all (constant over a behaviour)
    ordering,       \* ghost: whether prev is kept (constant over a behaviour)
    prev,           \* ghost, per caller: where the previous event of its call went
    bytesIn,        \* ghost: bytes of all events appended so far, when metering
    request,        \* firehose handler: c.Request (headers, method, body)
    handlerPc,      \* firehose handler: position of the request in the handler
    firehose,       \* firehose handler: the decoded firehoseLog
    logBatch,       \* firehose handler: the batch processFirehoseLog returned
    handleErr,      \* firehose handler: the error handle returned
    response,       \* firehose handler: c.Result as written
    bodyDecoded,    \* ghost: the request body has been read by the JSON decoder
    processed,      \* ghost: the calls of processor.ProcessBatch: batch and return
    takenEmpty,     \* ghost: the active buffer was taken and no Add into it succeeded
    firstClose,     \* ghost: what the first Close returned, and after how many handoffs
    pool,           \* sync.Pool of pooled readers: the readers Put and not yet taken
    allocated,      \* the pooled readers getPooledReader has constructed
    buf,            \* per pooled reader: unread bytes of r.buf
    epc,            \* per caller: position of its event between getPooledReader and EOF
    rdr,            \* per caller: r, the pooled reader of its event, or Nil
    puts,           \* ghost, per pooled reader: pool.Put calls since it was last taken
    checkouts       \* ghost: getPooledReader calls so far

encoderVars == <<pool, allocated, buf, epc, rdr, puts, checkouts>>

handlerVars == <<request, handlerPc, firehose, logBatch, handleErr, response,
                 bodyDecoded, processed>>

vars == <<eventsAdded, eventsActive, eventsFailed, available, active, bufItems,
          closing, closedCh, watcher, closeDone, timerSet, timerArmed, cbPending,
          muW, readers, activeMu, task, gErr, panicked, pc, rem, ctxDone, lastRet,
          cpc, cctx, cret, cfirst, prev, submitted, nextId, issued, nHandoff,
          succeeded, anyFail, closeHand, metering, quota, ordering, handlerVars, encoderVars, firstClose, takenEmpty, bytesIn>>

indexerVars == <<eventsAdded, eventsActive, eventsFailed, available, active, bufItems,
                 closing, closedCh, watcher, closeDone, timerSet, timerArmed,
                 cbPending, muW, readers, activeMu, task, gErr, panicked>>
procVars == <<pc, rem, ctxDone, lastRet, prev>>
closeVars == <<cpc, cctx, cret, cfirst>>
ghostVars == <<submitted, nextId, issued, nHandoff, succeeded, anyFail, closeHand,
               metering, quota, ordering, handlerVars, encoderVars, firstClose, takenEmpty, bytesIn>>

\* ------------------------------------------------------------ helpers
RECURSIVE SumSizes(_)
SumSizes(s) == IF s = <<>> THEN 0 ELSE Head(s).size + SumSizes(Tail(s))

Ids(items) == [k \in 1..Len(items) |-> items[k].id]

\* bulkIndexer.Len(): bytes written since the last Reset.
BufLen(b) == SumSizes(bufItems[b])
\* bulkIndexer.Items(): items added since the last Reset.
BufCount(b) == Len(bufItems[b])

Batches == UNION {[1..n -> Sizes] : n \in 1..MaxBatch}

\* An error value: its kind and the number of the flush task it came from.
NoErr == [e |-> "nil", t |-> 0]
\* Close has not returned (yet).
NotReturned == [e |-> "none", t |-> 0]
NoHand == [seq |-> 0, ids |-> <<>>]
\* No Close has returned yet.
NoClose == [ret |-> NotReturned, seq |-> 0]
\* The call of a caller has appended nothing yet.
NoPrev == [cyc |-> 0, id |-> 0]
\* A flush task: st is its position, n the item count flush read, m the items
\* it has added to eventsFailed, err what bulkIndexer.Flush returned; ok is a
\* ghost, the items of its request that the store accepted.
NoTask == [st |-> "none", fromClose |-> FALSE, seq |-> 0, n |-> 0, m |-> 0,
           ok |-> 0, err |-> "nil"]

Running == {b \in Bufs : task[b].st # "none"}
\* Tasks inside bulkIndexer.Flush.
InFlight == {b \in Bufs : task[b].st = "inflight"}


\* ------------------------------------------------- the firehose handler
\* (src/beater/api/firehose/handler.go)  No request is being handled: the
\* state of the handler in the runs of the indexer alone.
NoFirehose == [RequestID |-> "", Timestamp |-> 0, Records |-> <<>>]
NoError == [kind |-> "nil", id |-> "", err |-> ""]
\* A request body that is not JSON of the firehoseLog shape.
Malformed == [json |-> FALSE, value |-> NoFirehose]
NoResult == [id |-> "", StatusCode |-> 0, body |-> NoFirehose, err |-> ""]

NoRequest ==
    /\ request = [key |-> "", arn |-> <<>>, method |-> "", body |-> Malformed]
    /\ handlerPc = "unused"
    /\ firehose = NoFirehose
    /\ logBatch = <<>>
    /\ handleErr = NoError
    /\ response = NoResult
    /\ bodyDecoded = FALSE
    /\ processed = <<>>

\* No event has asked for a pooled reader: the pool is empty, as a package-level
\* sync.Pool is before its first Put.
NoEvent ==
    /\ pool = <<>>
    /\ allocated = {}
    /\ buf = [r \in Readers |-> 0]
    /\ epc = [p \in Procs |-> "idle"]
    /\ rdr = [p \in Procs |-> Nil]
    /\ puts = [r \in Readers |-> 0]
    /\ checkouts = 0

\* ---------------------------------------------------------------- New
New ==
    /\ eventsAdded = 0 /\ eventsActive = 0 /\ eventsFailed = 0
    /\ available = [k \in 1..MaxRequests |-> k]
    /\ active = Nil
    /\ bufItems = [b \in Bufs |-> <<>>]
    /\ closing = FALSE /\ closedCh = FALSE /\ watcher = "none" /\ closeDone = FALSE
    /\ timerSet = FALSE /\ timerArmed = FALSE /\ cbPending = 0
    /\ muW = None /\ readers = {} /\ activeMu = None
    /\ task = [b \in Bufs |-> NoTask]
    /\ gErr = NoErr
    /\ panicked = FALSE
    /\ pc = [p \in Procs |-> "idle"]
    /\ rem = [p \in Procs |-> <<>>]
    /\ ctxDone = [p \in Procs |-> FALSE]
    /\ lastRet = None
    /\ prev = [p \in Procs |-> NoPrev]
    /\ cpc = [c \in Closers |-> "idle"]
    /\ cctx = [c \in Closers |-> "live"]
    /\ cret = [c \in Closers |-> NotReturned]
    /\ cfirst = [c \in Closers |-> FALSE]
    /\ submitted = 0 /\ nextId = 0 /\ issued = [k \in {} |-> <<>>] /\ nHandoff = 0
    /\ succeeded = 0 /\ anyFail = FALSE /\ closeHand = NoHand /\ bytesIn = 0
    /\ takenEmpty = FALSE
    /\ firstClose = NoClose
    /\ NoEvent

Init == New /\ metering = FALSE /\ quota = MaxEvents /\ ordering = FALSE /\ NoRequest

\* The same start with the byte meter switched on.
InitMetered == New /\ metering = TRUE /\ quota = MaxEvents /\ ordering = FALSE /\ NoRequest

\* The same start for callers that submit MaxEventsBlocked events.
InitBlocked ==
    New /\ metering = FALSE /\ quota = MaxEventsBlocked /\ ordering = FALSE /\ NoRequest

\* The same start with the record of each call's previous append switched on.
InitOrder == New /\ metering = FALSE /\ quota = MaxEvents /\ ordering = TRUE /\ NoRequest

\* ------------------------------------------------------ shared pieces
\* time.Timer.Stop: reports whether the call stopped the timer, i.e. whether it
\* was scheduled and had neither fired nor been stopped.
StopIgnored == TRUE

StopReturns == timerArmed

\* i.active.Len() >= i.config.FlushBytes
ThresholdStrict(b) == BufLen(b) > FlushBytes

ThresholdReached(b) == BufLen(b) >= FlushBytes

\* flushActiveLocked: bulkIndexer := i.active; i.active = nil; i.g.Go(...).
\* The task's context is derived from ctx (Close's ctx when fromClose, else
\* context.Background()) and is cancelled when i.closed is closed.
ActiveKeptAfterHandoff == active

ActiveAfterHandoff == Nil

flushActiveLocked(fromClose) ==
    /\ nHandoff' = nHandoff + 1
    /\ takenEmpty' = FALSE
    /\ IF active = Nil
       THEN /\ panicked' = TRUE
            /\ UNCHANGED <<task, active>>
       ELSE /\ task' = [task EXCEPT ![active] =
                          [st |-> "start", fromClose |-> fromClose,
                           seq |-> nHandoff + 1, n |-> 0, m |-> 0, ok |-> 0,
                           err |-> "nil"]]
            /\ active' = ActiveAfterHandoff
            /\ UNCHANGED panicked

\* ------------------------------------------------------- ProcessBatch
\* i.mu.RLock(); if i.closing { return ErrClosed }.  RLock blocks while a
\* writer holds or waits for i.mu.
ClosingIgnored == FALSE

ClosingSeen == closing

ProcessBatchBegin(p, batch) ==
    /\ pc[p] = "idle"
    /\ muW = None
    /\ ClosingSeen \/ submitted + Len(batch) <= quota
    /\ IF ClosingSeen
       THEN /\ lastRet' = "ErrClosed"
            /\ UNCHANGED <<pc, rem, readers, submitted>>
       ELSE /\ UNCHANGED lastRet
            /\ pc' = [pc EXCEPT ![p] = "ev"]
            /\ rem' = [rem EXCEPT ![p] = batch]
            /\ readers' = readers \cup {p}
            /\ submitted' = submitted + Len(batch)
    /\ UNCHANGED <<eventsAdded, eventsActive, eventsFailed, available, active,
                   bufItems, closing, closedCh, watcher, closeDone, timerSet,
                   timerArmed, cbPending, muW, activeMu, task, gErr, panicked,
                   ctxDone, prev, nextId, issued, nHandoff, succeeded, anyFail, closeHand, metering, quota, ordering, handlerVars, encoderVars, firstClose, takenEmpty, bytesIn>>
    /\ UNCHANGED closeVars

\* The caller's context is cancelled (by the caller, at any time of a call).
ProcessBatchCtxCancel(p) ==
    /\ pc[p] # "idle"
    /\ ~ctxDone[p]
    /\ ctxDone' = [ctxDone EXCEPT ![p] = TRUE]
    /\ UNCHANGED <<pc, rem, lastRet, prev>>
    /\ UNCHANGED <<indexerVars, closeVars, ghostVars>>

\* What a return of ProcessBatch does to the caller: the deferred RUnlock.
Return(p, value) ==
    /\ pc' = [pc EXCEPT ![p] = "idle"]
    /\ lastRet' = value
    /\ rem' = [rem EXCEPT ![p] = <<>>]
    /\ ctxDone' = [ctxDone EXCEPT ![p] = FALSE]
    /\ readers' = readers \ {p}
    /\ prev' = [prev EXCEPT ![p] = NoPrev]

\* r.encoder.AddRaw fails: processEvent returns before taking the fill lock.
EncodeError(p) ==
    /\ pc[p] = "ev"
    /\ Return(p, "encErr")
    /\ UNCHANGED <<eventsAdded, eventsActive, eventsFailed, available, active,
                   bufItems, closing, closedCh, watcher, closeDone, timerSet,
                   timerArmed, cbPending, muW, activeMu, task, gErr, panicked>>
    /\ UNCHANGED <<closeVars, ghostVars>>

\* i.activeMu.Lock() in processEvent.
LockActive(p) ==
    /\ pc[p] = "ev"
    /\ activeMu = None
    /\ activeMu' = p
    /\ pc' = [pc EXCEPT ![p] = "locked"]
    /\ UNCHANGED <<eventsAdded, eventsActive, eventsFailed, available, active,
                   bufItems, closing, closedCh, watcher, closeDone, timerSet,
                   timerArmed, cbPending, muW, readers, task, gErr, panicked,
                   rem, ctxDone, lastRet, prev>>
    /\ UNCHANGED <<closeVars, ghostVars>>

\* The select's case <-ctx.Done() can be taken.
CtxCaseUnconditional(p) == TRUE

CtxCaseMissing(p) == FALSE

CtxCaseReady(p) == ctxDone[p]

\* if i.active == nil: the select, and with it ctx, is reached only then.
SlotCheckSkipped == TRUE

SlotEmpty == active = Nil

\* if i.active == nil { select { case <-ctx.Done(): return ctx.Err() ... } }
AcquireCtxDone(p) ==
    /\ pc[p] = "locked"
    /\ SlotEmpty
    /\ CtxCaseReady(p)
    /\ activeMu' = None
    /\ Return(p, "ctxErr")
    /\ UNCHANGED <<eventsAdded, eventsActive, eventsFailed, available, active,
                   bufItems, closing, closedCh, watcher, closeDone, timerSet,
                   timerArmed, cbPending, muW, task, gErr, panicked>>
    /\ UNCHANGED <<closeVars, ghostVars>>

\* for _, event := range *batch: the event processEvent is called with.
EventOfLast(p) == rem[p][Len(rem[p])]

EventOf(p) == Head(rem[p])

\* After a buffer is taken: time.AfterFunc if i.timer == nil, else
\* i.timer.Reset; either way the timer is scheduled.
ArmedOnlyWhenCreated == ~timerSet

ArmedAfterAcquire == TRUE

\* The rest of the slot check (case i.active = <-i.available, then AfterFunc or
\* Reset), followed by i.active.Add and atomic.AddInt64(&i.eventsAdded, 1).
\* addOk = FALSE is Add returning an error.
AppendEvent(p, addOk) ==
    /\ pc[p] = "locked"
    /\ active = Nil => available # <<>>
    /\ LET b == IF active = Nil THEN Head(available) ELSE active IN
       /\ active' = b
       /\ IF active = Nil
          THEN /\ available' = Tail(available)
               /\ timerSet' = TRUE
               /\ timerArmed' = ArmedAfterAcquire
          ELSE UNCHANGED <<available, timerSet, timerArmed>>
       /\ IF addOk
          THEN /\ bufItems' = [bufItems EXCEPT ![b] =
                                 Append(@, [id |-> nextId + 1, size |-> EventOf(p)])]
               /\ nextId' = nextId + 1
               /\ bytesIn' = IF metering THEN bytesIn + EventOf(p) ELSE bytesIn
               /\ eventsAdded' = eventsAdded + 1
               /\ pc' = [pc EXCEPT ![p] = "incActive"]
               /\ prev' = IF ordering
                          THEN [prev EXCEPT ![p] = [cyc |-> nHandoff + 1, id |-> nextId + 1]]
                          ELSE prev
               /\ takenEmpty' = FALSE
               /\ UNCHANGED <<activeMu, rem, ctxDone, lastRet, readers>>
          ELSE /\ activeMu' = None
               /\ Return(p, "addErr")
               /\ takenEmpty' = (takenEmpty \/ active = Nil)
               /\ UNCHANGED <<bufItems, nextId, eventsAdded, bytesIn>>
    /\ UNCHANGED <<metering, quota, ordering, handlerVars, encoderVars, firstClose>>
    /\ UNCHANGED <<eventsActive, eventsFailed, closing, closedCh, watcher,
                   closeDone, cbPending, muW, task, gErr, panicked>>
    /\ UNCHANGED <<closeVars, submitted, issued, nHandoff, succeeded, anyFail, closeHand>>

\* atomic.AddInt64(&i.eventsActive, 1), the threshold check with timer.Stop and
\* the handoff, the deferred activeMu.Unlock, and the return of processEvent:
\* the next event of the batch, or ProcessBatch returning nil.
IncActiveAndCheck(p) ==
    /\ pc[p] = "incActive"
    /\ eventsActive' = eventsActive + 1
    /\ IF ThresholdReached(active)
       THEN /\ timerArmed' = FALSE
            /\ IF StopReturns
               THEN flushActiveLocked(FALSE)
               ELSE UNCHANGED <<task, active, nHandoff, panicked, takenEmpty>>
       ELSE UNCHANGED <<timerArmed, task, active, nHandoff, panicked, takenEmpty>>
    /\ activeMu' = None
    /\ IF Len(rem[p]) > 1
       THEN /\ pc' = [pc EXCEPT ![p] = "ev"]
            /\ rem' = [rem EXCEPT ![p] = Tail(@)]
            /\ UNCHANGED <<ctxDone, lastRet, readers, prev>>
       ELSE Return(p, "nil")
    /\ UNCHANGED <<eventsAdded, eventsFailed, available, bufItems, closing,
                   closedCh, watcher, closeDone, timerSet, cbPending, muW, gErr>>
    /\ UNCHANGED <<closeVars, submitted, nextId, issued, succeeded, anyFail, closeHand, metering, quota, ordering, handlerVars, encoderVars, firstClose, bytesIn>>

\* -------------------------------------------------------------- timer
\* FlushInterval elapses: the runtime starts a goroutine running i.flushActive.
TimerFire ==
    /\ timerArmed
    /\ timerArmed' = FALSE
    /\ cbPending' = cbPending + 1
    /\ UNCHANGED <<eventsAdded, eventsActive, eventsFailed, available, active,
                   bufItems, closing, closedCh, watcher, closeDone, timerSet,
                   muW, readers, activeMu, task, gErr, panicked>>
    /\ UNCHANGED <<procVars, closeVars, submitted, nextId, issued, nHandoff, succeeded, anyFail, closeHand, metering, quota, ordering, handlerVars, encoderVars, firstClose, takenEmpty, bytesIn>>

\* flushActive: lock, flushActiveLocked(context.Background()), unlock.
flushActive ==
    /\ cbPending > 0
    /\ activeMu = None
    /\ cbPending' = cbPending - 1
    /\ flushActiveLocked(FALSE)
    /\ UNCHANGED <<eventsAdded, eventsActive, eventsFailed, available, bufItems,
                   closing, closedCh, watcher, closeDone, timerSet, timerArmed,
                   muW, readers, activeMu, gErr>>
    /\ UNCHANGED <<procVars, closeVars, submitted, nextId, issued, succeeded, anyFail, closeHand, metering, quota, ordering, handlerVars, encoderVars, firstClose, bytesIn>>

\* ------------------------------------------------------- flush worker
\* The context of a flush task is cancelled once i.closed is closed, or, for a
\* task Close started, once Close's own ctx is cancelled.
CloseCtxCancelled == \E c \in Closers : cfirst[c] /\ cctx[c] # "live"
TaskCtxOnlyFromParent(b) == task[b].fromClose /\ CloseCtxCancelled

TaskCtxCancelled(b) == closedCh \/ (task[b].fromClose /\ CloseCtxCancelled)

\* bulkIndexer.Reset() as called by the flush task.
ResetSkipped(b) == bufItems[b]

ResetItems(b) == <<>>

\* i.g.Go's bookkeeping when a task returns err: the first error is kept.
GroupErrLast(err, seq) == IF err # "nil" THEN [e |-> err, t |-> seq] ELSE gErr

GroupErr(err, seq) == IF err # "nil" /\ gErr = NoErr THEN [e |-> err, t |-> seq] ELSE gErr

\* The tail of a flush task: bulkIndexer.Reset(); i.available <- bulkIndexer;
\* return err (to the errgroup).
Release(b, err) ==
    /\ bufItems' = [bufItems EXCEPT ![b] = ResetItems(b)]
    /\ available' = Append(available, b)
    /\ gErr' = GroupErr(err, task[b].seq)
    /\ task' = [task EXCEPT ![b] = NoTask]

\* Ghost: record the bulk request that the task of handoff seq sends.
Issue(seq, ids) ==
    [k \in DOMAIN issued \cup {seq} |-> IF k = seq THEN ids ELSE issued[k]]

\* flush: n := bulkIndexer.Items(); n == 0 returns nil; otherwise
\* bulkIndexer.Flush(ctx) sends the bulk request.
NoItemsIgnored(b) == FALSE

NoItems(b) == BufCount(b) = 0

FlushStart(b) ==
    /\ task[b].st = "start"
    /\ IF NoItems(b)
       THEN /\ Release(b, "nil")
            /\ UNCHANGED issued
       ELSE /\ task' = [task EXCEPT ![b].st = "inflight", ![b].n = BufCount(b)]
            /\ issued' = Issue(task[b].seq, Ids(bufItems[b]))
            /\ UNCHANGED <<bufItems, available, gErr>>
    /\ UNCHANGED <<eventsAdded, eventsActive, eventsFailed, active, closing,
                   closedCh, watcher, closeDone, timerSet, timerArmed, cbPending,
                   muW, readers, activeMu, panicked>>
    /\ UNCHANGED <<procVars, closeVars, submitted, nextId, nHandoff, succeeded, anyFail, closeHand, metering, quota, ordering, handlerVars, encoderVars, firstClose, takenEmpty, bytesIn>>

\* Items of a response with info.Error.Type != "" || info.Status > 201.
RejectedCount(m) == m

\* What flush returns after a response with rejected items: return nil.
RejectionAsError == "rejected"

RejectionErr == "nil"

\* bulkIndexer.Flush returns a response in which m items are rejected.  With
\* m > 0 the step ends after atomic.AddInt64(&i.eventsFailed, eventsFailed);
\* with m = 0 it runs on through the deferred decrement of eventsActive.
FlushRespond(b, m) ==
    /\ task[b].st = "inflight"
    /\ m \in 0..task[b].n
    /\ IF RejectedCount(m) > 0
       THEN /\ eventsFailed' = eventsFailed + RejectedCount(m)
            /\ task' = [task EXCEPT ![b].st = "counted", ![b].m = RejectedCount(m),
                                    ![b].ok = task[b].n - m, ![b].err = RejectionErr]
            /\ UNCHANGED <<eventsActive, succeeded, bufItems, available, gErr>>
       ELSE /\ eventsActive' = eventsActive - task[b].n
            /\ succeeded' = succeeded + task[b].n
            /\ Release(b, "nil")
            /\ UNCHANGED eventsFailed
    /\ UNCHANGED <<eventsAdded, active, closing, closedCh, watcher, closeDone,
                   timerSet, timerArmed, cbPending, muW, readers, activeMu, panicked>>
    /\ UNCHANGED <<procVars, closeVars, submitted, nextId, issued, nHandoff,
                   anyFail, closeHand, metering, quota, ordering, handlerVars, encoderVars, firstClose, takenEmpty, bytesIn>>

\* Items a failed bulk request adds to eventsFailed.
FailedOnErrorOne(n) == 1

FailedOnError(n) == n

\* bulkIndexer.Flush returns an error: a transport failure, or the context
\* error once the task's context is cancelled.
\* atomic.AddInt64(&i.eventsFailed, int64(n)).
FlushFail(b, kind) ==
    /\ task[b].st = "inflight"
    /\ kind = "ctxErr" => TaskCtxCancelled(b)
    /\ eventsFailed' = eventsFailed + FailedOnError(task[b].n)
    /\ task' = [task EXCEPT ![b].st = "counted", ![b].m = FailedOnError(task[b].n),
                            ![b].err = kind]
    /\ cctx' = [c \in Closers |->
                 IF kind = "ctxErr" /\ cfirst[c] /\ cctx[c] = "cancelledInWait"
                 THEN "flushCancelled" ELSE cctx[c]]
    /\ UNCHANGED <<eventsAdded, eventsActive, available, active, bufItems, closing,
                   closedCh, watcher, closeDone, timerSet, timerArmed, cbPending,
                   muW, readers, activeMu, gErr, panicked>>
    /\ UNCHANGED <<procVars, cpc, cret, cfirst, ghostVars>>

\* defer atomic.AddInt64(&i.eventsActive, -int64(n)), then the tail of the task.
ActiveDecrementMissed(n) == 0

ActiveDecrementExtra(n) == n + 1

ActiveDecrement(n) == n

FlushFinish(b) ==
    /\ task[b].st = "counted"
    /\ eventsActive' = eventsActive - ActiveDecrement(task[b].n)
    /\ succeeded' = succeeded + task[b].ok
    /\ Release(b, task[b].err)
    /\ anyFail' = (anyFail \/ task[b].err # "nil")
    /\ UNCHANGED <<eventsAdded, eventsFailed, active, closing, closedCh, watcher,
                   closeDone, timerSet, timerArmed, cbPending, muW, readers,
                   activeMu, panicked>>
    /\ UNCHANGED <<procVars, closeVars, submitted, nextId, issued, nHandoff, closeHand, metering, quota, ordering, handlerVars, encoderVars, firstClose, takenEmpty, bytesIn>>

\* -------------------------------------------------------------- Close
\* i.mu.Lock(), first half: the writer announces itself; RLock callers that
\* come later wait behind it.
CloseBegin(c) ==
    /\ cpc[c] = "idle"
    /\ muW = None
    /\ muW' = c
    /\ cpc' = [cpc EXCEPT ![c] = "wlock"]
    /\ cret' = [cret EXCEPT ![c] = NotReturned]
    /\ cctx' = [cctx EXCEPT ![c] = "live"]
    /\ UNCHANGED cfirst
    /\ UNCHANGED <<eventsAdded, eventsActive, eventsFailed, available, active,
                   bufItems, closing, closedCh, watcher, closeDone, timerSet,
                   timerArmed, cbPending, readers, activeMu, task, gErr, panicked>>
    /\ UNCHANGED <<procVars, ghostVars>>

\* The ctx passed to Close is cancelled.  The value keeps whether that happened
\* while Close was in i.g.Wait() with a bulk request in flight, and FlushFail
\* marks it once such a request has returned the context error.
CloseCtxCancel(c) ==
    /\ cpc[c] # "idle"
    /\ cctx[c] = "live"
    /\ cctx' = [cctx EXCEPT ![c] = IF cpc[c] = "wait" /\ InFlight # {}
                                  THEN "cancelledInWait" ELSE "cancelled"]
    /\ UNCHANGED <<cpc, cret, cfirst>>
    /\ UNCHANGED <<indexerVars, procVars, ghostVars>>

\* i.mu.Lock() returns once the readers are gone; if !i.closing { i.closing =
\* true; go func() { ... close(i.closed) }() ... }.
ReadersIgnored == TRUE

ReadersGone == readers = {}

ClosingUnchecked == TRUE

NotClosing == ~closing

CloseLocked(c) ==
    /\ cpc[c] = "wlock"
    /\ ReadersGone
    /\ IF NotClosing
       THEN /\ closing' = TRUE
            /\ watcher' = "running"
            /\ cfirst' = [cfirst EXCEPT ![c] = TRUE]
            /\ cpc' = [cpc EXCEPT ![c] = "lockAct"]
       ELSE /\ cpc' = [cpc EXCEPT ![c] = "wait"]
            /\ UNCHANGED <<closing, watcher, cfirst>>
    /\ UNCHANGED <<cctx, cret>>
    /\ UNCHANGED <<eventsAdded, eventsActive, eventsFailed, available, active,
                   bufItems, closedCh, closeDone, timerSet, timerArmed, cbPending,
                   muW, readers, activeMu, task, gErr, panicked>>
    /\ UNCHANGED <<procVars, ghostVars>>

\* i.activeMu.Lock(); if i.active != nil && i.timer.Stop() {
\* i.flushActiveLocked(ctx) }.  The unlock is deferred to Close's return.
UnlockedAfterBlock(c) == None

HeldUntilReturn(c) == c

CloseHandoff(c) ==
    /\ cpc[c] = "lockAct"
    /\ activeMu = None
    /\ activeMu' = HeldUntilReturn(c)
    /\ IF active # Nil
       THEN /\ timerArmed' = FALSE
            /\ IF StopReturns
               THEN /\ flushActiveLocked(TRUE)
                    /\ closeHand' = [seq |-> nHandoff + 1, ids |-> Ids(bufItems[active])]
               ELSE UNCHANGED <<task, active, nHandoff, panicked, takenEmpty, closeHand>>
       ELSE UNCHANGED <<timerArmed, task, active, nHandoff, panicked, takenEmpty, closeHand>>
    /\ cpc' = [cpc EXCEPT ![c] = "wait"]
    /\ UNCHANGED <<cctx, cret, cfirst>>
    /\ UNCHANGED <<eventsAdded, eventsActive, eventsFailed, available, bufItems,
                   closing, closedCh, watcher, closeDone, timerSet, cbPending,
                   muW, readers, gErr>>
    /\ UNCHANGED <<procVars, submitted, nextId, issued, succeeded, anyFail, metering, quota, ordering, handlerVars, encoderVars, firstClose, bytesIn>>

\* return i.g.Wait(): returns the errgroup's error once no task is running;
\* then the deferred activeMu.Unlock, close(done) and mu.Unlock.
WaitSkipped == TRUE

WaitDone == Running = {}

CloseReturn(c) ==
    /\ cpc[c] = "wait"
    /\ WaitDone
    /\ cret' = [cret EXCEPT ![c] = gErr]
    /\ cpc' = [cpc EXCEPT ![c] = "idle"]
    /\ activeMu' = IF activeMu = c THEN None ELSE activeMu
    /\ closeDone' = (closeDone \/ cfirst[c])
    /\ cfirst' = [cfirst EXCEPT ![c] = FALSE]
    /\ muW' = None
    /\ cctx' = [cctx EXCEPT ![c] = "live"]
    /\ firstClose' = IF firstClose = NoClose
                     THEN [ret |-> gErr, seq |-> nHandoff]
                     ELSE firstClose
    /\ UNCHANGED <<eventsAdded, eventsActive, eventsFailed, available, active,
                   bufItems, closing, closedCh, watcher, timerSet, timerArmed,
                   cbPending, readers, task, gErr, panicked>>
    /\ UNCHANGED <<procVars, submitted, nextId, issued, nHandoff, succeeded, anyFail,
                   closeHand, metering, quota, ordering, handlerVars, encoderVars, takenEmpty, bytesIn>>

\* Close's goroutine: select { case <-done: case <-ctx.Done(): }; close(i.closed).
CloseWatcher ==
    /\ watcher = "running"
    /\ closeDone \/ CloseCtxCancelled
    /\ closedCh' = TRUE
    /\ watcher' = "exited"
    /\ UNCHANGED <<eventsAdded, eventsActive, eventsFailed, available, active,
                   bufItems, closing, closeDone, timerSet, timerArmed, cbPending,
                   muW, readers, activeMu, task, gErr, panicked>>
    /\ UNCHANGED <<procVars, closeVars, ghostVars>>

\* ------------------------------------------------------ specification
Next ==
    \/ \E p \in Procs, batch \in Batches : ProcessBatchBegin(p, batch)
    \/ \E p \in Procs : ProcessBatchCtxCancel(p)
    \/ \E p \in Procs : EncodeError(p)
    \/ \E p \in Procs : LockActive(p)
    \/ \E p \in Procs : AcquireCtxDone(p)
    \/ \E p \in Procs, addOk \in BOOLEAN : AppendEvent(p, addOk)
    \/ \E p \in Procs : IncActiveAndCheck(p)
    \/ TimerFire
    \/ flushActive
    \/ \E b \in Bufs : FlushStart(b)
    \/ \E b \in Bufs, m \in 0..MaxEvents : FlushRespond(b, m)
    \/ \E b \in Bufs, kind \in {"transport", "ctxErr"} : FlushFail(b, kind)
    \/ \E b \in Bufs : FlushFinish(b)
    \/ \E c \in Closers : CloseBegin(c)
    \/ \E c \in Closers : CloseCtxCancel(c)
    \/ \E c \in Closers : CloseLocked(c)
    \/ \E c \in Closers : CloseHandoff(c)
    \/ \E c \in Closers : CloseReturn(c)
    \/ CloseWatcher

Spec == Init /\ [][Next]_vars

\* The same program with FlushInterval so long that the timer never fires.
NextQuiet ==
    \/ \E p \in Procs, batch \in Batches : ProcessBatchBegin(p, batch)
    \/ \E p \in Procs : ProcessBatchCtxCancel(p)
    \/ \E p \in Procs : EncodeError(p)
    \/ \E p \in Procs : LockActive(p)
    \/ \E p \in Procs : AcquireCtxDone(p)
    \/ \E p \in Procs, addOk \in BOOLEAN : AppendEvent(p, addOk)
    \/ \E p \in Procs : IncActiveAndCheck(p)
    \/ \E b \in Bufs : FlushStart(b)
    \/ \E b \in Bufs, m \in 0..MaxEvents : FlushRespond(b, m)
    \/ \E b \in Bufs, kind \in {"transport", "ctxErr"} : FlushFail(b, kind)
    \/ \E b \in Bufs : FlushFinish(b)
    \/ \E c \in Closers : CloseBegin(c)
    \/ \E c \in Closers : CloseCtxCancel(c)
    \/ \E c \in Closers : CloseLocked(c)
    \/ \E c \in Closers : CloseHandoff(c)
    \/ \E c \in Closers : CloseReturn(c)
    \/ CloseWatcher

SpecQuiet == InitMetered /\ [][NextQuiet]_vars

\* A single ProcessBatch caller and a timer that never fires.
Single == {"p1"}

NextSize ==
    \/ \E p \in Single, batch \in Batches : ProcessBatchBegin(p, batch)
    \/ \E p \in Single : ProcessBatchCtxCancel(p)
    \/ \E p \in Single : EncodeError(p)
    \/ \E p \in Single : LockActive(p)
    \/ \E p \in Single : AcquireCtxDone(p)
    \/ \E p \in Single, addOk \in BOOLEAN : AppendEvent(p, addOk)
    \/ \E p \in Single : IncActiveAndCheck(p)
    \/ \E b \in Bufs : FlushStart(b)
    \/ \E b \in Bufs, m \in 0..MaxEvents : FlushRespond(b, m)
    \/ \E b \in Bufs, kind \in {"transport", "ctxErr"} : FlushFail(b, kind)
    \/ \E b \in Bufs : FlushFinish(b)
    \/ \E c \in Closers : CloseBegin(c)
    \/ \E c \in Closers : CloseCtxCancel(c)
    \/ \E c \in Closers : CloseLocked(c)
    \/ \E c \in Closers : CloseHandoff(c)
    \/ \E c \in Closers : CloseReturn(c)
    \/ CloseWatcher

SpecSize == InitMetered /\ [][NextSize]_vars

\* The program while Close is never called.
NextDeadline ==
    \/ \E p \in Procs, batch \in Batches : ProcessBatchBegin(p, batch)
    \/ \E p \in Procs : ProcessBatchCtxCancel(p)
    \/ \E p \in Procs : EncodeError(p)
    \/ \E p \in Procs : LockActive(p)
    \/ \E p \in Procs : AcquireCtxDone(p)
    \/ \E p \in Procs, addOk \in BOOLEAN : AppendEvent(p, addOk)
    \/ \E p \in Procs : IncActiveAndCheck(p)
    \/ TimerFire
    \/ flushActive
    \/ \E b \in Bufs : FlushStart(b)
    \/ \E b \in Bufs, m \in 0..MaxEvents : FlushRespond(b, m)
    \/ \E b \in Bufs, kind \in {"transport", "ctxErr"} : FlushFail(b, kind)
    \/ \E b \in Bufs : FlushFinish(b)

\* Scheduling: FlushInterval elapses for an armed timer; a goroutine that can
\* run does run (a caller inside its critical section, a started flush task);
\* the fill lock is granted fairly, so the timer's goroutine waiting for it
\* gets it.  Nothing is assumed of the store or of the callers' arrival.
FairDeadline ==
    /\ WF_vars(TimerFire)
    /\ SF_vars(flushActive)
    /\ \A p \in Procs : WF_vars(\E addOk \in BOOLEAN : AppendEvent(p, addOk))
    /\ \A p \in Procs : WF_vars(IncActiveAndCheck(p))
    /\ \A b \in Bufs : WF_vars(FlushStart(b))

SpecDeadline == Init /\ [][NextDeadline]_vars /\ FairDeadline

\* Callers and flush workers alone: the timer does not fire, Close is not
\* called, encoding and Add do not fail.
NextBlocked ==
    \/ \E p \in Procs, batch \in Batches : ProcessBatchBegin(p, batch)
    \/ \E p \in Procs : ProcessBatchCtxCancel(p)
    \/ \E p \in Procs : LockActive(p)
    \/ \E p \in Procs : AcquireCtxDone(p)
    \/ \E p \in Procs : AppendEvent(p, TRUE)
    \/ \E p \in Procs : IncActiveAndCheck(p)
    \/ \E b \in Bufs : FlushStart(b)
    \/ \E b \in Bufs, m \in 0..MaxEventsBlocked : FlushRespond(b, m)
    \/ \E b \in Bufs, kind \in {"transport"} : FlushFail(b, kind)
    \/ \E b \in Bufs : FlushFinish(b)

\* Scheduling: every goroutine that can take a step of its own takes it, and
\* sync.Mutex hands the fill lock to each waiter in turn.  The store need not
\* respond, callers need not call, and no ctx need be cancelled.
FairBlocked ==
    /\ \A p \in Procs : SF_vars(LockActive(p))
    /\ \A p \in Procs : WF_vars(AcquireCtxDone(p))
    /\ \A p \in Procs : WF_vars(AppendEvent(p, TRUE))
    /\ \A p \in Procs : WF_vars(IncActiveAndCheck(p))
    /\ \A b \in Bufs : WF_vars(FlushStart(b))
    /\ \A b \in Bufs : WF_vars(FlushFinish(b))

SpecBlocked == InitBlocked /\ [][NextBlocked]_vars /\ FairBlocked

\* Callers, the timer and flush workers; Close is not called, encoding and
\* Add do not fail, so every buffer handed off holds an event.
NextOrder ==
    \/ \E p \in Procs, batch \in Batches : ProcessBatchBegin(p, batch)
    \/ \E p \in Procs : ProcessBatchCtxCancel(p)
    \/ \E p \in Procs : LockActive(p)
    \/ \E p \in Procs : AcquireCtxDone(p)
    \/ \E p \in Procs : AppendEvent(p, TRUE)
    \/ \E p \in Procs : IncActiveAndCheck(p)
    \/ TimerFire
    \/ flushActive
    \/ \E b \in Bufs : FlushStart(b)
    \/ \E b \in Bufs, m \in 0..MaxEvents : FlushRespond(b, m)
    \/ \E b \in Bufs, kind \in {"transport"} : FlushFail(b, kind)
    \/ \E b \in Bufs : FlushFinish(b)

SpecOrder == InitOrder /\ [][NextOrder]_vars

\* The program while Close is never called, fairly scheduled, with the record
\* of each call's previous append.
SpecStop == InitOrder /\ [][NextDeadline]_vars /\ FairDeadline

\* The whole program under the scheduling of FairDeadline, with a store that
\* answers every bulk request and a Close that returns once its wait is over.
FairHandoff ==
    /\ FairDeadline
    /\ \A b \in Bufs : WF_vars(\E m \in 0..MaxEvents : FlushRespond(b, m))
    /\ \A b \in Bufs : WF_vars(FlushFinish(b))
    /\ \A c \in Closers : WF_vars(CloseReturn(c))

SpecHandoff == Init /\ [][Next]_vars /\ FairHandoff

\* ================================================== the firehose handler
\* src/beater/api/firehose/handler.go.  One request at a time: the handler
\* shares no state between requests.
\* ------------------------------------------------------------- inputs
\* Longest record payload (decoded bytes) and most records of an envelope.
MaxData == 3
MaxRecords == 2
\* The bytes of a payload: '\n' and a letter.
NL == 10
Letter == 97
Payloads == UNION {[1..n -> {NL, Letter}] : n \in 0..MaxData}
\* firehoseLog.Timestamp, milliseconds (int64; negative values decode too).
Timestamps == {-1500, 2500}

\* A base64 string is a sequence of symbols: 0..63 are the digits of the
\* standard alphabet, B64Pad is '=', B64Other a character outside the alphabet.
B64Pad == 64
B64Other == 65

\* base64.StdEncoding.EncodeToString: what the sender does to a payload.
RECURSIVE EncodeToString(_)
EncodeToString(b) ==
    IF Len(b) = 0 THEN <<>>
    ELSE IF Len(b) = 1
    THEN <<b[1] \div 4, (b[1] % 4) * 16, B64Pad, B64Pad>>
    ELSE IF Len(b) = 2
    THEN <<b[1] \div 4, (b[1] % 4) * 16 + b[2] \div 16, (b[2] % 16) * 4, B64Pad>>
    ELSE <<b[1] \div 4, (b[1] % 4) * 16 + b[2] \div 16,
           (b[2] % 16) * 4 + b[3] \div 64, b[3] % 64>>
         \o EncodeToString(SubSeq(b, 4, Len(b)))

\* record.Data values: the encodings of the payloads, an encoding whose unused
\* low bits are set ("YR==", which decodes like "YQ=="), and three strings that
\* are not base64: a foreign character, a missing pad, data after the pad.
Datas ==
    {EncodeToString(b) : b \in Payloads}
    \cup {<<24, 17, B64Pad, B64Pad>>}
    \cup {<<24, 16, B64Other, B64Pad>>, <<24, 16, B64Pad>>,
          <<24, 16, B64Pad, B64Pad, 24, 16, B64Pad, B64Pad>>}

RecordLists == UNION {[1..n -> Datas] : n \in 0..MaxRecords}

\* X-Amz-Firehose-Source-Arn: absent, or an ARN (':' is Colon, every other
\* character is Letter) with a colon inside its resource part.
Colon == 58
Arns == {<<>>, <<Letter, Colon, Letter, Colon, Letter, Colon, Letter, Colon,
                 Letter, Colon, Letter, Colon, Letter>>}

\* The request body: Malformed, or the JSON of a firehoseLog.
Envelopes == [RequestID : {"req-1"}, Timestamp : Timestamps, Records : RecordLists]
Bodies == {Malformed} \cup {[json |-> TRUE, value |-> fh] : fh \in Envelopes}

\* X-Amz-Firehose-Access-Key: absent, a key the authenticator accepts, a key
\* it refuses.
Keys == {"", "valid", "invalid"}
Methods == {"POST", "GET"}

\* What processor.ProcessBatch may return: nil, the two errors the handler
\* names, the indexer's own ErrClosed, any other error.
ProcessorErrs == {"nil", "ErrChannelClosed", "ErrFull", "ErrClosed", "other"}

\* ---------------------------------------------------- pure functions
\* base64.StdEncoding.DecodeString: quanta of four symbols, the last one
\* padded; the low bits a padded quantum leaves unused are not checked.
RECURSIVE DecodeString(_)
DecodeString(d) ==
    LET corrupt == [err |-> "CorruptInputError", bytes |-> <<>>]
        rest == SubSeq(d, 5, Len(d))
        b1 == d[1] * 4 + d[2] \div 16
        b2 == (d[2] % 16) * 16 + d[3] \div 4
        b3 == (d[3] % 4) * 64 + d[4]
    IN  IF d = <<>> THEN [err |-> "nil", bytes |-> <<>>]
        ELSE IF Len(d) < 4 \/ d[1] >= B64Pad \/ d[2] >= B64Pad THEN corrupt
        ELSE IF d[3] < B64Pad /\ d[4] < B64Pad
        THEN LET r == DecodeString(rest)
             IN  IF r.err # "nil" THEN corrupt
                 ELSE [err |-> "nil", bytes |-> <<b1, b2, b3>> \o r.bytes]
        ELSE IF rest # <<>> \/ d[4] # B64Pad \/ d[3] = B64Other THEN corrupt
        ELSE IF d[3] = B64Pad THEN [err |-> "nil", bytes |-> <<b1>>]
        ELSE [err |-> "nil", bytes |-> <<b1, b2>>]

\* strings.Split(s, sep) for a one-byte separator: always at least one part.
RECURSIVE Split(_, _)
Split(str, sep) ==
    IF \A k \in 1..Len(str) : str[k] # sep THEN <<str>>
    ELSE LET k == CHOOSE k \in 1..Len(str) :
                      str[k] = sep /\ \A j \in 1..(k - 1) : str[j] # sep
         IN  <<SubSeq(str, 1, k - 1)>> \o Split(SubSeq(str, k + 1, Len(str)), sep)

\* strings.SplitN(s, sep, n): at most n parts, the last one unsplit.
RECURSIVE SplitN(_, _, _)
SplitN(str, sep, n) ==
    IF n = 1 \/ \A k \in 1..Len(str) : str[k] # sep THEN <<str>>
    ELSE LET k == CHOOSE k \in 1..Len(str) :
                      str[k] = sep /\ \A j \in 1..(k - 1) : str[j] # sep
         IN  <<SubSeq(str, 1, k - 1)>> \o SplitN(SubSeq(str, k + 1, Len(str)), sep, n - 1)

\* Go's integer division truncates toward zero.
Quot(a, b) == IF a >= 0 THEN a \div b ELSE -((-a) \div b)

\* parseARN
arnSections == 6
parseARN(arnString) ==
    LET sections == SplitN(arnString, Colon, arnSections)
    IN  IF Len(sections) # arnSections
        THEN [Partition |-> <<>>, Service |-> <<>>, Region |-> <<>>,
              AccountID |-> <<>>, Resource |-> <<>>]
        ELSE [Partition |-> sections[2], Service |-> sections[3],
              Region |-> sections[4], AccountID |-> sections[5],
              Resource |-> sections[6]]

\* requestMetadata: the base event of a request.
requestMetadata(req) ==
    LET arnParsed == parseARN(req.arn)
    IN  [CloudOrigin |-> [AccountID |-> arnParsed.AccountID, Region |-> arnParsed.Region],
         ServiceOrigin |-> [ID |-> req.arn, Name |-> arnParsed.Resource],
         DataStream |-> [Type |-> "logs", Dataset |-> "firehose"],
         Timestamp |-> 0, Processor |-> "", Message |-> <<>>]

\* The inner loop of processFirehoseLog: for _, line := range splitLines {
\* if line == "" { break }; ... append }.
RECURSIVE LinesAppended(_)
LinesAppended(splitLines) ==
    IF splitLines = <<>> \/ Head(splitLines) = <<>> THEN <<>>
    ELSE <<Head(splitLines)>> \o LinesAppended(Tail(splitLines))

LogEvent(fh, baseEvent, line) ==
    [baseEvent EXCEPT !.Timestamp = Quot(fh.Timestamp, 1000),
                      !.Processor = "log",
                      !.Message = line]

\* processFirehoseLog, from record number k on: the batch, or the decoding
\* error of the first record that is not base64 (and then no batch).
RECURSIVE processFirehoseLogFrom(_, _, _)
processFirehoseLogFrom(fh, baseEvent, k) ==
    IF k > Len(fh.Records) THEN [err |-> "nil", batch |-> <<>>]
    ELSE LET recordDec == DecodeString(fh.Records[k])
             lines == LinesAppended(Split(recordDec.bytes, NL))
             tail == processFirehoseLogFrom(fh, baseEvent, k + 1)
         IN  IF recordDec.err # "nil" THEN [err |-> recordDec.err, batch |-> <<>>]
             ELSE IF tail.err # "nil" THEN tail
             ELSE [err |-> "nil",
                   batch |-> [n \in 1..Len(lines) |-> LogEvent(fh, baseEvent, lines[n])]
                             \o tail.batch]

processFirehoseLog(fh, baseEvent) == processFirehoseLogFrom(fh, baseEvent, 1)

\* ------------------------------------------------------------ actions
modelindexerVars == <<indexerVars, procVars, closeVars, submitted, nextId, issued,
                      nHandoff, succeeded, anyFail, closeHand, metering, quota,
                      ordering, bytesIn, takenEmpty, firstClose>>

\* A request arrives.
InitFirehose ==
    /\ New /\ metering = FALSE /\ quota = MaxEvents /\ ordering = FALSE
    /\ request \in [key : Keys, arn : Arns, method : Methods, body : Bodies]
    /\ handlerPc = "handle"
    /\ firehose = NoFirehose
    /\ logBatch = <<>>
    /\ handleErr = NoError
    /\ response = NoResult
    /\ bodyDecoded = FALSE
    /\ processed = <<>>

requestError(id, err) == [kind |-> "requestError", id |-> id, err |-> err]
plainError(err) == [kind |-> "error", id |-> "", err |-> err]

Fails(e) ==
    /\ handleErr' = e
    /\ handlerPc' = "write"

\* accessKey == "" and authenticator.Authenticate.
CredentialIgnored(req) == TRUE

CredentialAccepted(req) == req.key = "valid"

Authenticate ==
    /\ handlerPc = "handle"
    /\ IF request.key = ""
       THEN Fails(requestError("Unauthorized", "Access key is required"))
       ELSE IF ~CredentialAccepted(request)
       THEN Fails(requestError("Unauthorized", "authentication failed"))
       ELSE handlerPc' = "method" /\ UNCHANGED handleErr
    /\ UNCHANGED <<request, firehose, logBatch, response, bodyDecoded, processed>>
    /\ UNCHANGED <<modelindexerVars, encoderVars>>

\* if c.Request.Method != http.MethodPost
CheckMethod ==
    /\ handlerPc = "method"
    /\ IF request.method # "POST"
       THEN Fails(requestError("MethodNotAllowed", "only POST requests are supported"))
       ELSE handlerPc' = "decode" /\ UNCHANGED handleErr
    /\ UNCHANGED <<request, firehose, logBatch, response, bodyDecoded, processed>>
    /\ UNCHANGED <<modelindexerVars, encoderVars>>

\* json.NewDecoder(c.Request.Body).Decode(&firehose)
DecodeBody ==
    /\ handlerPc = "decode"
    /\ bodyDecoded' = TRUE
    /\ IF ~request.body.json
       THEN Fails(plainError("json")) /\ UNCHANGED firehose
       ELSE firehose' = request.body.value /\ handlerPc' = "convert" /\ UNCHANGED handleErr
    /\ UNCHANGED <<request, logBatch, response, processed>>
    /\ UNCHANGED <<modelindexerVars, encoderVars>>

\* baseEvent := requestMetadata(c); batch, err := processFirehoseLog(...)
Convert ==
    /\ handlerPc = "convert"
    /\ LET r == processFirehoseLog(firehose, requestMetadata(request))
       IN  IF r.err # "nil"
           THEN Fails(plainError(r.err)) /\ UNCHANGED logBatch
           ELSE logBatch' = r.batch /\ handlerPc' = "process" /\ UNCHANGED handleErr
    /\ UNCHANGED <<request, firehose, response, bodyDecoded, processed>>
    /\ UNCHANGED <<modelindexerVars, encoderVars>>

\* The switch on the error of processor.ProcessBatch.
ErrorOfUnmapped(e) == plainError(e)

ErrorOf(e) ==
    IF e = "ErrChannelClosed" THEN requestError("ShuttingDown", "server is shutting down")
    ELSE IF e = "ErrFull" THEN requestError("FullQueue", e)
    ELSE plainError(e)

Submit(e) ==
    /\ handlerPc = "process"
    /\ processed' = Append(processed, [batch |-> logBatch, ret |-> e])
    /\ handleErr' = IF e = "nil" THEN NoError ELSE ErrorOf(e)
    /\ handlerPc' = "write"
    /\ UNCHANGED <<request, firehose, logBatch, response, bodyDecoded>>
    /\ UNCHANGED <<modelindexerVars, encoderVars>>

\* The returned request.Handler: the switch on the type of the error, or the
\* body and the status of success; then c.Write().
Write ==
    /\ handlerPc = "write"
    /\ response' =
         IF handleErr.kind = "requestError"
         THEN [id |-> handleErr.id, StatusCode |-> 0, body |-> NoFirehose,
               err |-> handleErr.err]
         ELSE IF handleErr.kind = "error"
         THEN [id |-> "Internal", StatusCode |-> 0, body |-> NoFirehose,
               err |-> handleErr.err]
         ELSE [id |-> "Accepted", StatusCode |-> 200,
               body |-> [RequestID |-> firehose.RequestID,
                         Timestamp |-> firehose.Timestamp, Records |-> <<>>],
               err |-> ""]
    /\ handlerPc' = "done"
    /\ UNCHANGED <<request, firehose, logBatch, handleErr, bodyDecoded, processed>>
    /\ UNCHANGED <<modelindexerVars, encoderVars>>

NextFirehose ==
    \/ Authenticate
    \/ CheckMethod
    \/ DecodeBody
    \/ Convert
    \/ \E e \in ProcessorErrs : Submit(e)
    \/ Write

SpecFirehose == InitFirehose /\ [][NextFirehose]_vars

\* ------------------------------------------------- the pooled readers
\* The events of concurrent processEvent calls, each from getPooledReader to
\* the end of its reader.  The indexer and the handler stand still.
\* Occurrences of reader r in the pool.
InPool(q, r) == Cardinality({k \in DOMAIN q : q[k] = r})

\* pool.Get() taking the k-th reader out of the pool.
Taken(q, k) == [j \in 1..(Len(q) - 1) |-> IF j < k THEN q[j] ELSE q[j + 1]]

\* r.buf.Read(p) with len(p) = k on a bytes.Buffer holding unread bytes: an
\* empty buffer reports io.EOF unless nothing was asked for.
BufferRead(unread, k) ==
    IF unread = 0
    THEN [n |-> 0, err |-> IF k = 0 THEN "nil" ELSE "EOF"]
    ELSE [n |-> IF k < unread THEN k ELSE unread, err |-> "nil"]

PutOnAnyRead(res) == TRUE

\* if err == io.EOF: the reader goes back into the pool.
PutOnEOF(res) == res.err = "EOF"

\* r := getPooledReader(): a reader of the pool, or a new one when pool.Get()
\* returns none (a sync.Pool may return none although readers were Put).
getPooledReader(p) ==
    /\ epc[p] = "idle"
    /\ checkouts < MaxCheckouts
    /\ \E r \in Readers :
          /\ \/ \E k \in DOMAIN pool :
                  /\ pool[k] = r
                  /\ pool' = Taken(pool, k)
                  /\ UNCHANGED allocated
             \/ /\ r \notin allocated
                /\ \A y \in Readers \ allocated : r <= y
                /\ allocated' = allocated \cup {r}
                /\ UNCHANGED pool
          /\ rdr' = [rdr EXCEPT ![p] = r]
          /\ puts' = [puts EXCEPT ![r] = 0]
    /\ epc' = [epc EXCEPT ![p] = "got"]
    /\ checkouts' = checkouts + 1
    /\ UNCHANGED <<buf, modelindexerVars, handlerVars>>

\* r.encoder.AddRaw(&beatEvent) writes the n bytes of the document into r.buf.
AddRaw(p, n) ==
    /\ epc[p] = "got"
    /\ buf' = [buf EXCEPT ![rdr[p]] = @ + n]
    /\ epc' = [epc EXCEPT ![p] = "encoded"]
    /\ UNCHANGED <<pool, allocated, rdr, puts, checkouts, modelindexerVars, handlerVars>>

\* The event ends without its reader having been read: r is not Put.
Dropped(p) ==
    /\ rdr' = [rdr EXCEPT ![p] = Nil]
    /\ epc' = [epc EXCEPT ![p] = "idle"]
    /\ UNCHANGED <<pool, allocated, buf, puts, checkouts, modelindexerVars, handlerVars>>

\* AddRaw returns an error and processEvent returns it.
AddRawFails(p) ==
    /\ epc[p] = "got"
    /\ Dropped(p)

\* ctx is done while processEvent waits for a buffer: it returns ctx.Err().
Cancelled(p) ==
    /\ epc[p] = "encoded"
    /\ Dropped(p)

\* i.active.Add(BulkIndexerItem{..., Body: r}): the item carries the reader.
AddBody(p) ==
    /\ epc[p] = "encoded"
    /\ epc' = [epc EXCEPT ![p] = "attached"]
    /\ UNCHANGED <<pool, allocated, buf, rdr, puts, checkouts, modelindexerVars, handlerVars>>

\* The bulk buffer reads the body of an item: it calls Read until the reader
\* reports end-of-stream.
Consuming(p) == epc[p] = "attached"

\* (r *pooledReader).Read(p) with len(p) = k, called for the item of caller p.
Read(p, k) ==
    /\ Consuming(p)
    /\ LET r   == rdr[p]
           res == BufferRead(buf[r], k)
       IN  /\ buf' = [buf EXCEPT ![r] = @ - res.n]
           /\ IF PutOnEOF(res)
              THEN /\ pool' = Append(pool, r)
                   /\ puts' = [puts EXCEPT ![r] = @ + 1]
                   /\ epc' = [epc EXCEPT ![p] = "consumed"]
              ELSE UNCHANGED <<pool, puts, epc>>
    /\ UNCHANGED <<allocated, rdr, checkouts, modelindexerVars, handlerVars>>

\* The bulk buffer gives up the body before its end: the reader is never Put.
ShortRead(p) ==
    /\ Consuming(p)
    /\ Dropped(p)

\* The bulk buffer drops its items (Reset): the item of caller p is gone.
DropItem(p) ==
    /\ epc[p] = "consumed"
    /\ rdr' = [rdr EXCEPT ![p] = Nil]
    /\ epc' = [epc EXCEPT ![p] = "idle"]
    /\ UNCHANGED <<pool, allocated, buf, puts, checkouts, modelindexerVars, handlerVars>>

NextEncoder ==
    \/ \E p \in Procs : getPooledReader(p)
    \/ \E p \in Procs, n \in 1..MaxDoc : AddRaw(p, n)
    \/ \E p \in Procs : AddRawFails(p)
    \/ \E p \in Procs : Cancelled(p)
    \/ \E p \in Procs : AddBody(p)
    \/ \E p \in Procs, k \in 0..MaxChunk : Read(p, k)
    \/ \E p \in Procs : ShortRead(p)
    \/ \E p \in Procs : DropItem(p)

SpecEncoder == Init /\ [][NextEncoder]_vars



\* ------------------------------------------------------------- claims
Range(s) == {s[k] : k \in DOMAIN s}

\* Appenders between atomic.AddInt64(&i.eventsAdded, 1) and
\* atomic.AddInt64(&i.eventsActive, 1).
MidAppend == Cardinality({p \in Procs : pc[p] = "incActive"})

\* Items that flush workers have added to eventsFailed while their deferred
\* decrement of eventsActive is still to run.
RECURSIVE SumCounted(_)
SumCounted(S) == IF S = {} THEN 0
                 ELSE LET b == CHOOSE x \in S : TRUE IN task[b].m + SumCounted(S \ {b})
MidFlush == SumCounted({b \in Bufs : task[b].st = "counted"})

\* C1 as stated: added == active + (items whose flush finished without being
\* counted failed) + failed in every reachable state, also between two atomic
\* counter updates.
C1_BalancedAtAllTimes == eventsAdded = eventsActive + succeeded + eventsFailed

\* C1 amended: the balance holds whenever no appender is between its two
\* increments and no flush worker is between its update of failed and its
\* decrement of active; in between, added is ahead by one per such appender and
\* behind by the items such a worker has already counted failed.
C1_BalancedUpToUpdatesInProgress ==
    eventsAdded + MidFlush = eventsActive + succeeded + eventsFailed + MidAppend

C1_Witness ==
    /\ MidAppend = 0 /\ MidFlush = 0
    /\ eventsActive > 0 /\ succeeded > 0 /\ eventsFailed > 0

\* The buffer held in the active slot, and the buffers in the available channel.
Filling == IF active = Nil THEN {} ELSE {active}
Idle == Range(available)

\* C2: at most one buffer is filling, no buffer is in two of the states
\* filling, flushing, idle at once, and the three together are all MaxRequests
\* buffers.
C2_BuffersConserved ==
    /\ Cardinality(Filling) \in {0, 1}
    /\ Len(available) = Cardinality(Idle)
    /\ Filling \cap Idle = {} /\ Filling \cap Running = {} /\ Idle \cap Running = {}
    /\ Cardinality(Filling) + Cardinality(Running) + Len(available) = MaxRequests

C2_Witness ==
    /\ active # Nil /\ available = <<>>
    /\ Cardinality(Running) = MaxRequests - 1
    /\ \E b \in Running : task[b].st = "counted" /\ task[b].err # "nil"
    /\ lastRet = "ctxErr"

\* The places (request, position) at which event id was handed to the store.
Occurrences(id) ==
    {<<k, j>> \in UNION {{k} \X DOMAIN issued[k] : k \in DOMAIN issued} : issued[k][j] = id}

\* C3: every appended event is contained in at most one issued bulk request,
\* and at most once in it.
C3_AtMostOnce == \A id \in 1..nextId : Cardinality(Occurrences(id)) <= 1

C3_Witness ==
    /\ Cardinality(DOMAIN issued) > MaxRequests
    /\ gErr.e # "nil"
    /\ \A id \in 1..nextId : Cardinality(Occurrences(id)) = 1

\* A step in which Close returns to caller c.
CloseReturns(c) == cpc[c] = "wait" /\ cpc'[c] = "idle"

\* C4: at the moment any Close call returns, active == 0: every admitted item
\* has had its flush completed.
C4_ActiveZeroWhenCloseReturns ==
    [][\A c \in Closers : CloseReturns(c) => eventsActive' = 0]_vars

\* C5: once the closing flag is set no ProcessBatch call is admitted: every
\* call returns ErrClosed, and the step in which it returns changes neither
\* the counters nor any buffer.
C5_ClosedRejects ==
    [][closing =>
         /\ \A p \in Procs : pc[p] = "idle" /\ pc'[p] = "idle"
         /\ lastRet' \in {lastRet, "ErrClosed"}
         /\ nextId' = nextId /\ eventsAdded' = eventsAdded
         /\ lastRet' # lastRet =>
              UNCHANGED <<eventsAdded, eventsActive, eventsFailed, bufItems,
                          active, available, task>>]_vars

C5_Witness ==
    /\ closing /\ lastRet = "ErrClosed" /\ eventsAdded > 0
    /\ \E c \in Closers : cpc[c] = "idle" /\ cret[c].e = "transport"

\* C6: when Close finds an active buffer with n >= 1 items whose timer has not
\* fired, it stops the timer and hands the buffer off itself; when it returns
\* (its ctx not cancelled) exactly one bulk request holding those n items has
\* been issued and its task has finished; it returns nil if no flush task
\* failed in the indexer's lifetime.
C6_CloseFlushesActive ==
    /\ [][\A c \in Closers :
            (cpc[c] = "lockAct" /\ cpc'[c] = "wait" /\ active # Nil /\ timerArmed
               /\ BufCount(active) >= 1)
            => /\ ~timerArmed' /\ active' = Nil
               /\ task'[active].st = "start" /\ task'[active].fromClose
               /\ bufItems'[active] = bufItems[active]
               /\ closeHand' = [seq |-> task'[active].seq, ids |-> Ids(bufItems[active])]]_vars
    /\ [][\A c \in Closers :
            (CloseReturns(c) /\ cctx[c] = "live" /\ Len(closeHand.ids) >= 1)
            => /\ Running = {}
               /\ closeHand.seq \in DOMAIN issued
               /\ issued[closeHand.seq] = closeHand.ids
               /\ \A k \in DOMAIN issued \ {closeHand.seq} :
                    Range(issued[k]) \cap Range(closeHand.ids) = {}
               /\ (~anyFail => cret'[c] = NoErr)]_vars

C6_Witness ==
    /\ \E c \in Closers : cpc[c] = "idle" /\ cret[c] = NoErr
    /\ Len(closeHand.ids) >= 1
    /\ closeHand.seq \in DOMAIN issued
    /\ eventsActive = 0

\* C7 as stated, its part about the return value: when the ctx passed to Close
\* is cancelled while Close waits for a bulk request in flight, and that
\* request unwinds with the context error, Close returns the context error.
C7_CloseReturnsCtxError ==
    [][\A c \in Closers :
         (CloseReturns(c) /\ cctx[c] = "flushCancelled") => cret'[c].e = "ctxErr"]_vars

\* C7 amended: once Close's ctx is cancelled the context of every running
\* task that Close started is cancelled, and that of every other running task
\* once Close's goroutine has closed i.closed; Close returns only when all
\* tasks have finished, and returns the errgroup's error (nil if no task
\* failed); a task that returns the context error had a cancelled context and
\* adds all its items to failed.
C7_CancelReachesFlushes ==
    /\ [](\A c \in Closers : (cfirst[c] /\ cctx[c] # "live") =>
            \A b \in Running :
               (task[b].fromClose \/ watcher = "exited") => TaskCtxCancelled(b))
    /\ [][\A c \in Closers :
            (CloseReturns(c) /\ cctx[c] \in {"cancelledInWait", "flushCancelled"})
            => /\ Running = {}
               /\ cret'[c] = gErr
               /\ (~anyFail => cret'[c] = NoErr)]_vars
    /\ [][\A b \in Bufs :
            (task[b].st = "inflight" /\ task'[b].st = "counted"
               /\ task'[b].err = "ctxErr")
            => /\ closedCh \/ (task[b].fromClose /\ CloseCtxCancelled)
               /\ eventsFailed' = eventsFailed + task[b].n]_vars

C7_Witness ==
    /\ \E c \in Closers : cpc[c] = "wait" /\ cctx[c] = "flushCancelled"
    /\ Running = {}
    /\ gErr.e = "ctxErr"
    /\ eventsFailed > 0 /\ eventsActive = 0

\* C8: the errgroup keeps the error of the first flush task that returns one
\* and never replaces it; Close (its ctx not cancelled) returns that error, or
\* nil if no flush task failed.
C8_CloseReturnsFirstError ==
    /\ [](anyFail <=> gErr # NoErr)
    /\ [][\A b \in Bufs :
            (task[b].st = "counted" /\ task'[b].st = "none" /\ task[b].err # "nil"
               /\ ~anyFail)
            => gErr' = [e |-> task[b].err, t |-> task[b].seq]]_vars
    /\ [][gErr # NoErr => gErr' = gErr]_vars
    /\ [][\A c \in Closers :
            (CloseReturns(c) /\ cctx[c] = "live")
            => /\ cret'[c] = gErr
               /\ (cret'[c] = NoErr <=> ~anyFail)]_vars

C8_Witness ==
    /\ \E c \in Closers : cpc[c] = "idle" /\ cret[c].e = "transport"
                          /\ cret[c].t < closeHand.seq
    /\ eventsFailed = eventsAdded /\ eventsAdded >= 2

\* All handoffs have run: nothing is filling and no flush task is running.
Drained == active = Nil /\ Running = {}
Requests == Cardinality(DOMAIN issued)

\* C9 as stated: once S bytes have been ingested and all handoffs have run, at
\* least floor(S / FlushBytes) bulk requests have been issued.
C9_ThresholdLaw == Drained => Requests >= bytesIn \div FlushBytes

\* C9 amended (timer never firing): a bulk request holds fewer than
\* FlushBytes + MaxSize bytes, so once all handoffs have run the requests
\* number at least S / (FlushBytes + MaxSize - 1), rounded up.
C9_ThresholdLawWithOvershoot ==
    Drained => Requests * (FlushBytes + MaxSize - 1) >= bytesIn

C9_Witness ==
    /\ Drained /\ closing
    /\ bytesIn >= 2 * FlushBytes
    /\ Requests >= 2

\* items reaches FlushBytes and no proper prefix of it does.
ShortestRun(items) ==
    /\ SumSizes(items) >= FlushBytes
    /\ SumSizes(SubSeq(items, 1, Len(items) - 1)) < FlushBytes

\* ids are events appended one after the other.
Consecutive(ids) == \A j \in 1..Len(ids) : ids[j] = ids[1] + j - 1

\* C10 (single caller, timer never firing): the buffer is handed off in the
\* critical section of the append that first brings it to FlushBytes, so
\* outside a critical section the active buffer is below FlushBytes, every
\* size-triggered request is the shortest run of consecutive events reaching
\* FlushBytes, events of one size s dividing FlushBytes give requests of
\* FlushBytes / s items each, and active is 0 once Close has returned.
C10_SizeFlush ==
    /\ []((activeMu = None /\ active # Nil) => BufLen(active) < FlushBytes)
    /\ [][\A p \in Procs :
            (pc[p] = "incActive" /\ pc'[p] # "incActive")
            => IF BufLen(active) >= FlushBytes
               THEN /\ active' = Nil
                    /\ task'[active].st = "start"
                    /\ bufItems'[active] = bufItems[active]
                    /\ ShortestRun(bufItems[active])
               ELSE active' = active]_vars
    /\ [](\A k \in DOMAIN issued : Consecutive(issued[k]))
    /\ [](\A s \in Sizes :
            (Drained /\ bytesIn = s * nextId /\ FlushBytes % s = 0
               /\ (s * nextId) % FlushBytes = 0)
            => /\ Requests = (s * nextId) \div FlushBytes
               /\ \A k \in DOMAIN issued : Len(issued[k]) = FlushBytes \div s)
    /\ []((closing /\ \A c \in Closers : cpc[c] = "idle") => eventsActive = 0)

C10_Witness ==
    /\ Drained /\ closing /\ \A c \in Closers : cpc[c] = "idle"
    /\ bytesIn = nextId /\ nextId >= FlushBytes /\ nextId % FlushBytes = 0
    /\ Requests = nextId \div FlushBytes
    /\ eventsAdded = nextId /\ eventsActive = 0

\* Event id is in the buffer being filled / has been sent in a bulk request.
InActive(id) == active # Nil /\ id \in Range(Ids(bufItems[active]))
Sent(id) == \E k \in DOMAIN issued : id \in Range(issued[k])

\* C11 (Close never called; the timer fires, runnable goroutines run, the fill
\* lock is granted fairly): an event admitted into the active buffer is
\* eventually handed off and sent in a bulk request, whatever the buffer's
\* length.
C11_Deadline == \A id \in 1..MaxEvents : InActive(id) ~> Sent(id)

C11_Witness ==
    \E b \in Bufs : /\ task[b].st = "inflight"
                     /\ BufCount(b) >= 1 /\ BufLen(b) < FlushBytes
                     /\ ~timerArmed /\ cbPending = 0 /\ active = Nil

\* No buffer is filling and none is idle: all MaxRequests buffers are with
\* flush tasks.
Full == active = Nil /\ available = <<>>

\* C12: while all buffers are handed off and the active slot is empty nothing
\* is appended; a caller waiting for a buffer leaves the wait in that state
\* only because its ctx is cancelled, and then ProcessBatch returns the
\* context error with added, active, the slot and the buffers unchanged; the
\* idle pool is refilled only by a flush task that finishes, with its buffer
\* reset.
C12_BackPressure ==
    /\ [][Full => /\ nextId' = nextId /\ eventsAdded' = eventsAdded
                  /\ active' = Nil
                  /\ \A b \in Bufs : bufItems'[b] \in {bufItems[b], <<>>}]_vars
    /\ [][\A p \in Procs :
            (Full /\ pc[p] = "locked" /\ pc'[p] # "locked")
            => /\ ctxDone[p]
               /\ pc'[p] = "idle" /\ lastRet' = "ctxErr"
               /\ UNCHANGED <<eventsAdded, eventsActive, eventsFailed, active,
                              bufItems, available, task>>]_vars
    /\ [][(available = <<>> /\ available' # <<>>)
            => \E b \in Bufs : /\ task[b].st # "none" /\ task'[b].st = "none"
                                /\ available' = <<b>>
                                /\ bufItems'[b] = <<>>]_vars

C12_Witness ==
    /\ Full
    /\ \A b \in Bufs : task[b].st = "inflight"
    /\ eventsAdded = eventsActive /\ eventsAdded >= MaxRequests
    /\ \E p \in Procs : pc[p] = "locked" /\ activeMu = p /\ ctxDone[p]

\* Caller p waits for the fill lock / waits in the select for a buffer.
BlockedOnFillLock(p) == pc[p] = "ev" /\ activeMu # None
BlockedOnPool(p) == pc[p] = "locked" /\ active = Nil /\ available = <<>>

\* C13 as stated: a caller whose ctx is cancelled while it is blocked on the
\* fill lock or on the idle pool eventually returns.
C13_BlockedCallReturns ==
    \A p \in Procs :
        ((BlockedOnFillLock(p) \/ BlockedOnPool(p)) /\ ctxDone[p]) ~> (pc[p] = "idle")

\* C13 amended: only the wait for an idle buffer is cancellable.  A caller
\* whose ctx is cancelled while it waits in the select eventually leaves the
\* wait, and if no buffer has become idle when it leaves, it returns the
\* context error.
C13_PoolWaitCancellable ==
    /\ \A p \in Procs : (BlockedOnPool(p) /\ ctxDone[p]) ~> (pc[p] # "locked")
    /\ [][\A p \in Procs :
            (BlockedOnPool(p) /\ pc'[p] # "locked")
            => ctxDone[p] /\ pc'[p] = "idle" /\ lastRet' = "ctxErr"]_vars

C13_Witness ==
    /\ \E p \in Procs : BlockedOnPool(p) /\ activeMu = p /\ ctxDone[p]
    /\ \E p \in Procs : BlockedOnFillLock(p) /\ ctxDone[p]
    /\ \A b \in Bufs : task[b].st = "inflight"

\* A step in which caller p appends an event / an event after the first of
\* its call.
Appends(p) == pc[p] = "locked" /\ pc'[p] = "incActive"
AppendsAgain(p) == Appends(p) /\ prev[p] # NoPrev

\* C14 as stated: two successive events of one call land in the same fill
\* cycle or in consecutive fill cycles, also with concurrent callers.
C14_SameOrConsecutive ==
    [][\A p \in Procs : AppendsAgain(p) => prev'[p].cyc - prev[p].cyc <= 1]_vars

\* C14 amended: the events of a call are appended in argument order, each to
\* the buffer filling at that moment; between two successive events of a call
\* the buffers handed off number at most one more than the events that other
\* callers appended in between.
C14_ArgumentOrder ==
    /\ [][\A p \in Procs :
            Appends(p)
            => /\ bufItems'[active'] =
                    Append(bufItems[active'], [id |-> nextId + 1, size |-> Head(rem[p])])
               /\ rem'[p] = rem[p]
               /\ prev'[p] = [cyc |-> nHandoff + 1, id |-> nextId + 1]
               /\ prev[p].id < prev'[p].id /\ prev[p].cyc <= prev'[p].cyc]_vars
    /\ [][\A p \in Procs :
            (pc[p] = "incActive" /\ pc'[p] = "ev") => rem'[p] = Tail(rem[p])]_vars
    /\ [][\A p \in Procs :
            AppendsAgain(p)
            => prev'[p].cyc - prev[p].cyc <= prev'[p].id - prev[p].id]_vars

C14_Witness ==
    \E p \in Procs : /\ pc[p] = "locked" /\ Len(rem[p]) = 1
                      /\ prev[p] = [cyc |-> 1, id |-> 1]
                      /\ nHandoff = 2 /\ nextId = 2 /\ available # <<>>

\* A step in which ProcessBatch returns an error to caller p.
ReturnsErr(p) == pc[p] # "idle" /\ pc'[p] = "idle" /\ lastRet' # "nil"
\* Event id is in some buffer.
Buffered(id) == \E b \in Bufs : id \in Range(Ids(bufItems[b]))
\* s is a prefix of t.
Prefix(s, t) == Len(s) <= Len(t) /\ SubSeq(t, 1, Len(s)) = s

\* C15: the step in which ProcessBatch returns an error appends nothing and
\* undoes nothing, and drops the failing event and those after it; a buffer
\* only grows, until the flush task that sent it resets it, and added never
\* decreases; every buffered event is eventually sent; ProcessBatch returns
\* the context error only from an empty active slot, and a caller whose ctx is
\* cancelled still appends to an existing active buffer.
C15_StopsAtFirstError ==
    /\ [][\A p \in Procs :
            ReturnsErr(p)
            => /\ UNCHANGED <<eventsAdded, eventsActive, eventsFailed, bufItems, nextId>>
               /\ rem[p] # <<>> /\ rem'[p] = <<>>
               /\ lastRet' \in {"encErr", "addErr", "ctxErr"}
               /\ lastRet' = "ctxErr" => (active = Nil /\ ctxDone[p])]_vars
    /\ [][/\ eventsAdded' >= eventsAdded
          /\ \A b \in Bufs :
               \/ Prefix(bufItems[b], bufItems'[b])
               \/ /\ bufItems'[b] = <<>>
                  /\ task[b].st \in {"inflight", "counted"}
                  /\ task[b].seq \in DOMAIN issued
                  /\ issued[task[b].seq] = Ids(bufItems[b])]_vars
    /\ [][\A p \in Procs :
            (pc[p] = "locked" /\ active # Nil /\ ctxDone[p] /\ pc'[p] # "locked")
            => \/ Appends(p) /\ active' = active
               \/ pc'[p] = "idle" /\ lastRet' = "addErr"]_vars
    /\ \A id \in 1..MaxEvents : Buffered(id) ~> Sent(id)

C15_Witness ==
    \E p \in Procs : /\ BlockedOnPool(p) /\ ctxDone[p]
                      /\ prev[p] # NoPrev /\ Buffered(prev[p].id)
                      /\ eventsAdded = nextId /\ nextId >= prev[p].id

\* Steps of the flush task of buffer b whose bulk request failed as a whole:
\* bulkIndexer.Flush returns the error / the task returns.
FailsWhole(b) == task[b].st = "inflight" /\ task'[b].st = "counted" /\ task'[b].err # "nil"
FinishesFailed(b) == task[b].st = "counted" /\ task'[b].st = "none" /\ task[b].err # "nil"

\* C16 as stated, its last part: the error of a bulk request that failed as a
\* whole becomes the error that Close returns.
C16_ErrorReturnedByClose ==
    [][\A b \in Bufs :
         FinishesFailed(b) => gErr' = [e |-> task[b].err, t |-> task[b].seq]]_vars

\* C16 amended: when the bulk request of a buffer with n >= 1 items fails as a
\* whole, failed grows by n and active shrinks by n, added is unchanged, the
\* buffer is reset and appended to the idle pool, no request is issued again
\* for it, and the error goes to the errgroup, which keeps it only if no flush
\* task returned an error before; Close returns the error the errgroup keeps.
C16_WholeFailure ==
    /\ [][\A b \in Bufs :
            FailsWhole(b)
            => /\ task[b].n >= 1 /\ task[b].n = BufCount(b)
               /\ eventsFailed' = eventsFailed + task[b].n
               /\ UNCHANGED <<eventsAdded, eventsActive, bufItems, available, issued, gErr>>]_vars
    /\ [][\A b \in Bufs :
            FinishesFailed(b)
            => /\ eventsActive' = eventsActive - task[b].n
               /\ UNCHANGED <<eventsAdded, eventsFailed, issued, nextId>>
               /\ bufItems' = [bufItems EXCEPT ![b] = <<>>]
               /\ available' = Append(available, b)
               /\ gErr' = IF gErr = NoErr THEN [e |-> task[b].err, t |-> task[b].seq]
                                          ELSE gErr]_vars
    /\ [][\A c \in Closers : CloseReturns(c) => cret'[c] = gErr]_vars

C16_Witness ==
    /\ gErr.e = "transport" /\ gErr.t = 1
    /\ Len(available) = MaxRequests
    /\ Cardinality(DOMAIN issued) >= 2
    /\ eventsFailed = eventsAdded /\ eventsAdded >= 2
    /\ eventsActive = 0 /\ succeeded = 0

\* Steps of the flush task of buffer b whose bulk request got a response:
\* some items rejected / none rejected / the task returns after rejections.
RespondsRejecting(b) ==
    /\ task[b].st = "inflight" /\ task'[b].st = "counted"
    /\ task'[b].ok > 0 \/ task'[b].err = "nil"
RespondsClean(b) == task[b].st = "inflight" /\ task'[b].st = "none"
FinishesRejected(b) ==
    /\ task[b].st = "counted" /\ task'[b].st = "none"
    /\ task[b].ok > 0 \/ task[b].err = "nil"

\* C17: a response that rejects m of the n items adds m to failed; the task
\* then subtracts n from active, resets the buffer, returns it to the idle
\* pool and reports no error, and issues no further request; the errgroup's
\* error changes only when a bulk request failed as a whole, so rejections
\* alone leave Close returning nil.
C17_ItemRejections ==
    /\ [][\A b \in Bufs :
            RespondsRejecting(b)
            => /\ task'[b].m >= 1 /\ task'[b].m + task'[b].ok = task[b].n
               /\ eventsFailed' = eventsFailed + task'[b].m
               /\ task'[b].err = "nil"
               /\ UNCHANGED <<eventsAdded, eventsActive, bufItems, available, issued, gErr>>]_vars
    /\ [][\A b \in Bufs :
            FinishesRejected(b)
            => /\ eventsActive' = eventsActive - task[b].n
               /\ UNCHANGED <<eventsAdded, eventsFailed, issued, nextId, gErr, anyFail>>
               /\ bufItems' = [bufItems EXCEPT ![b] = <<>>]
               /\ available' = Append(available, b)]_vars
    /\ [][\A b \in Bufs :
            RespondsClean(b)
            => /\ eventsActive' = eventsActive - task[b].n
               /\ UNCHANGED <<eventsAdded, eventsFailed, issued, gErr, anyFail>>]_vars
    /\ [][gErr' # gErr => \E b \in Bufs : FinishesFailed(b)]_vars
    /\ [][\A c \in Closers : (CloseReturns(c) /\ ~anyFail) => cret'[c] = NoErr]_vars

C17_Witness ==
    /\ Cardinality(DOMAIN issued) = 1
    /\ eventsAdded = 2 /\ eventsFailed = 1 /\ succeeded = 1 /\ eventsActive = 0
    /\ Len(available) = MaxRequests
    /\ \E c \in Closers : cpc[c] = "idle" /\ cret[c] = NoErr

\* The active buffer holds at least one event.
ActiveHoldsEvent == active # Nil /\ BufCount(active) >= 1

\* C18 as stated: whenever the active buffer holds an event the flush timer
\* is armed, i.e. scheduled and neither fired nor stopped.
C18_TimerArmed == ActiveHoldsEvent => timerArmed

\* C18 amended: whenever the active buffer holds an event, either the timer
\* is armed or it has fired and its one callback has yet to take the fill
\* lock and hand the buffer off; events appended in that window join the
\* buffer the callback will hand off.
C18_TimerArmedOrFired ==
    /\ ActiveHoldsEvent => (timerArmed \/ cbPending = 1)
    /\ cbPending \in {0, 1}
    /\ cbPending = 1 => (~timerArmed /\ active # Nil)

C18_Witness ==
    /\ ActiveHoldsEvent /\ ~timerArmed /\ cbPending = 1
    /\ activeMu = None
    /\ BufCount(active) >= 2 /\ BufLen(active) >= FlushBytes

\* C19 as stated, its bound on flushing: at most MaxRequests - 1 buffers are
\* with flush tasks at any time.
C19_AllButOneFlushing == Cardinality(Running) <= MaxRequests - 1

\* C19 amended: at most one buffer is filling (none before the first event and
\* after each handoff), and the buffers with flush tasks number at most
\* MaxRequests, at most MaxRequests - 1 while one is filling.
C19_FillingAndFlushing ==
    /\ Cardinality(Filling) <= 1
    /\ Cardinality(Running) + Cardinality(Filling) <= MaxRequests
    /\ Running \cap Filling = {}

C19_Witness ==
    /\ Filling = {} /\ Cardinality(Running) = MaxRequests
    /\ \A b \in Bufs : task[b].st = "inflight" /\ BufCount(b) >= 1
    /\ \A p \in Procs : pc[p] = "idle"

\* Close holds i.mu for writing: from i.mu.Lock() returning to the deferred
\* i.mu.Unlock().
HoldsMu(c) == cpc[c] \in {"lockAct", "wait"}

InProgress(p) == pc[p] # "idle"

SetsClosing == ~closing /\ closing'

\* C20: while Close holds the lifecycle lock no ProcessBatch call is in
\* progress and none starts, no event is appended and added does not change;
\* and the step that sets the closing flag is taken with no ProcessBatch call
\* between its start and its return.
C20_LifecycleExclusion ==
    /\ [](\A c \in Closers : HoldsMu(c) =>
            (readers = {} /\ \A p \in Procs : ~InProgress(p)))
    /\ [][(\E c \in Closers : HoldsMu(c)) =>
            /\ eventsAdded' = eventsAdded
            /\ nextId' = nextId
            /\ \A p \in Procs : ~InProgress(p)']_vars
    /\ [][SetsClosing =>
            /\ readers = {}
            /\ \A p \in Procs : ~InProgress(p) /\ ~InProgress(p)'
            /\ \E c \in Closers : cpc[c] = "wlock" /\ HoldsMu(c)']_vars

C20_Witness ==
    \E c \in Closers :
        /\ cpc[c] = "wait" /\ cfirst[c] /\ closing
        /\ closeHand.seq > 0
        /\ InFlight # {}
        /\ eventsAdded >= 2
        /\ lastRet = "nil"

\* ------------------------------------------------------ handoff claims
\* A step that starts a flush task, and which of the three paths takes it.
HandsOff == nHandoff' # nHandoff
ByThreshold == \E p \in Procs : pc[p] = "incActive" /\ pc'[p] # "incActive"
ByTimer == cbPending' = cbPending - 1
ByClose == \E c \in Closers : cpc[c] = "lockAct" /\ cpc'[c] = "wait"
\* A step that calls i.timer.Stop().
CallsStop ==
    \/ ByThreshold /\ ThresholdReached(active)
    \/ ByClose /\ active # Nil
\* The buffers of a fill-cycle that has not been handed off / that has.
Handed == {b \in Bufs : task[b].st # "none"}
Pooled == {available[k] : k \in 1..Len(available)}

C25_TimerHandoffNonEmpty ==
    [][(ByTimer /\ HandsOff) => (active # Nil /\ BufCount(active) >= 1)]_vars

\* C25 amended: the timer callback always hands off a buffer, and that buffer
\* holds at least one item unless it was taken for an event whose Add failed
\* and no Add into it has succeeded since (the timer is armed when the buffer
\* is taken, before the Add); an empty buffer handed off goes back to the pool
\* without a bulk request.
C25_TimerHandoffNonEmptyUnlessAddFailed ==
    /\ []((active # Nil /\ BufCount(active) = 0) <=> takenEmpty)
    /\ [](takenEmpty => (timerArmed \/ cbPending = 1))
    /\ [][(ByTimer /\ HandsOff) =>
            (active # Nil /\ (BufCount(active) >= 1 \/ takenEmpty))]_vars
    /\ [](\A b \in Bufs : task[b].st \notin {"none", "start"} =>
            (task[b].n >= 1 /\ BufCount(b) >= 1))
    /\ [][\A b \in Bufs : (task[b].st = "start" /\ BufCount(b) = 0 /\ task'[b] # task[b])
            => (task'[b] = NoTask /\ issued' = issued
                /\ available' = Append(available, b))]_vars

C25_Witness ==
    \E b \in Bufs :
        /\ task[b].st = "start" /\ ~task[b].fromClose /\ BufCount(b) = 0
        /\ active = Nil /\ cbPending = 0
        /\ eventsAdded = 0 /\ lastRet = "addErr"

\* Close is in i.g.Wait() with a bulk request in flight.
AwaitsFlush(c) == cpc[c] = "wait" /\ InFlight # {}

\* C26 as stated, for Close: Close does not hold the fill lock while it waits
\* for in-flight flush tasks.
C26_NotHeldWhileAwaited == \A c \in Closers : AwaitsFlush(c) => activeMu # c

\* C26 amended: only ProcessBatch callers and Close ever hold the fill lock,
\* never a flush task, and a caller holds it only inside processEvent; but the
\* Close that set the closing flag holds it from its handoff step until it
\* returns, so also while it waits for in-flight flush tasks, and a caller
\* holds it while it waits for an idle buffer with all buffers being flushed.
C26_NotHeldByFlushWorker ==
    /\ [](activeMu \in {None} \cup Procs \cup Closers)
    /\ [](\A p \in Procs : activeMu = p <=> pc[p] \in {"locked", "incActive"})
    /\ [](\A c \in Closers : activeMu = c <=> (cpc[c] = "wait" /\ cfirst[c]))
    /\ [][\A b \in Bufs : task'[b] # task[b] /\ task[b].st # "none" =>
            activeMu' = activeMu]_vars

C26_Witness ==
    \E c \in Closers :
        /\ AwaitsFlush(c) /\ activeMu = c
        /\ \E b \in InFlight : task[b].fromClose
        /\ \E b \in InFlight : ~task[b].fromClose

\* Some ProcessBatch call holds i.mu in shared mode.
CallInProgress == readers # {}

C28_HandoffHasBuffer ==
    /\ [](~panicked)
    /\ [](cbPending > 0 => (active # Nil /\ task[active].st = "none"))
    /\ [][HandsOff =>
            /\ active # Nil
            /\ task'[active].st = "start" /\ task[active].st = "none"
            /\ {b \in Bufs : task'[b].st = "start"} \ {b \in Bufs : task[b].st = "start"}
                 = {active}]_vars
    /\ [][cbPending > 0 => (active' = active \/ (ByTimer /\ HandsOff))]_vars
    /\ [][ByTimer => (HandsOff /\ active # Nil /\ bufItems'[active] = bufItems[active])]_vars

C28_Witness ==
    \E b \in Bufs :
        /\ task[b].st = "start" /\ ~task[b].fromClose /\ task[b].seq >= 2
        /\ BufCount(b) >= 1 /\ ~ThresholdReached(b)
        /\ \E b2 \in Bufs \ {b} : task[b2].st # "none" /\ task[b2].seq = 1 /\ ThresholdReached(b2)

\* Items held by the buffers of S.
RECURSIVE ItemsIn(_)
ItemsIn(S) ==
    IF S = {} THEN 0
    ELSE LET b == CHOOSE x \in S : TRUE
         IN  BufCount(b) + ItemsIn(S \ {b})

\* C29: 0 <= active <= added in every state; active is decremented only by
\* the flush task of a handed-off buffer, by the number of items of that
\* buffer, each of which had incremented it before the handoff.
C29_ActiveBounds ==
    /\ [](0 <= eventsActive /\ eventsActive <= eventsAdded)
    /\ [](eventsActive >= ItemsIn(Handed))
    /\ [][eventsActive' < eventsActive =>
            \E b \in Handed :
                /\ b # active
                /\ task[b].n = BufCount(b) /\ task[b].n >= 1
                /\ eventsActive - eventsActive' = task[b].n
                /\ eventsActive' >= 0]_vars
    /\ [][HandsOff => eventsActive' >= ItemsIn(Handed \cup {active})]_vars

C29_Witness ==
    /\ eventsActive = 0 /\ eventsAdded >= 2
    /\ \E p \in Procs : pc[p] = "incActive"
    /\ Handed = {} /\ succeeded + eventsFailed >= 1

\* A Close call made after an earlier Close call has returned.
LaterClose(c) == cpc[c] # "idle" /\ firstClose # NoClose
\* A step of that call.
StepOf(c) == cpc'[c] # cpc[c]

\* C30: a second or later Close hands nothing off, leaves the timer, the
\* closing flag, the fill lock and the ctx watcher alone, and only waits for
\* the flush tasks still running; it returns the error the first Close
\* returned whenever that was an error, and also when it was nil and no flush
\* task has been started since.
C30_CloseIdempotent ==
    /\ [](\A c \in Closers : LaterClose(c) =>
            (closing /\ ~cfirst[c] /\ cpc[c] \in {"wlock", "wait"} /\ activeMu # c))
    /\ [][\A c \in Closers : (LaterClose(c) /\ StepOf(c)) =>
            /\ nHandoff' = nHandoff /\ task' = task /\ active' = active
            /\ timerArmed' = timerArmed /\ timerSet' = timerSet
            /\ cbPending' = cbPending
            /\ closing' = closing /\ watcher' = watcher /\ closedCh' = closedCh
            /\ activeMu' = activeMu /\ closeHand' = closeHand]_vars
    /\ [][\A c \in Closers : (LaterClose(c) /\ CloseReturns(c)) =>
            /\ Running = {}
            /\ cret'[c] = gErr
            /\ firstClose.ret # NoErr => cret'[c] = firstClose.ret
            /\ nHandoff = firstClose.seq => cret'[c] = firstClose.ret]_vars

C30_Witness ==
    \E c \in Closers :
        /\ LaterClose(c) /\ cpc[c] = "wait"
        /\ firstClose.ret.e = "transport" /\ nHandoff = firstClose.seq
        /\ closeHand.seq > 0 /\ active = Nil /\ Running = {}

\* ------------------------------------------------- firehose handler claims
\* What an event of the batch says about its line.
LogFields(ev) == [Message |-> ev.Message, Processor |-> ev.Processor,
                  Timestamp |-> ev.Timestamp]

NonEmpty(line) == line # <<>>

\* One log event per non-empty line of every record, in order, for an
\* envelope whose records all decode.
RECURSIVE EventsPerNonEmptyLine(_, _)
EventsPerNonEmptyLine(fh, k) ==
    IF k > Len(fh.Records) THEN <<>>
    ELSE LET lines == SelectSeq(Split(DecodeString(fh.Records[k]).bytes, NL), NonEmpty)
         IN  [n \in 1..Len(lines) |->
                 [Message |-> lines[n], Processor |-> "log",
                  Timestamp |-> Quot(fh.Timestamp, 1000)]]
             \o EventsPerNonEmptyLine(fh, k + 1)

\* The batch processFirehoseLog returned is ready to be submitted.
BatchProduced == handlerPc = "process"

\* C21: the batch produced for an envelope is, in order, one log event per
\* non-empty line of every decoded record (empty lines skipped, the lines
\* after them still emitted), with Message the line, Processor log and
\* Timestamp the envelope's timestamp / 1000.
C21_EventPerNonEmptyLine ==
    BatchProduced =>
        [n \in 1..Len(logBatch) |-> LogFields(logBatch[n])]
            = EventsPerNonEmptyLine(firehose, 1)

\* The handler has written its response.
Responded == handlerPc = "done"

\* C22: when ProcessBatch returns an error the response is ShuttingDown for
\* ErrChannelClosed, FullQueue for ErrFull and Internal for every other
\* error; the success response (status 200 with the envelope's requestId and
\* timestamp) is written exactly when ProcessBatch was called and returned nil.
C22_ErrorMapping ==
    Responded =>
        /\ Len(processed) <= 1
        /\ \A n \in 1..Len(processed) :
             /\ processed[n].ret = "ErrChannelClosed" => response.id = "ShuttingDown"
             /\ processed[n].ret = "ErrFull" => response.id = "FullQueue"
             /\ processed[n].ret \in ProcessorErrs \ {"nil", "ErrChannelClosed", "ErrFull"}
                    => response.id = "Internal"
             /\ processed[n].ret = "nil" => response.id = "Accepted"
        /\ response.id = "Accepted" <=>
             (processed # <<>> /\ processed[1].ret = "nil")
        /\ response.id = "Accepted" =>
             /\ response.StatusCode = 200
             /\ response.body.RequestID = request.body.value.RequestID
             /\ response.body.Timestamp = request.body.value.Timestamp
        /\ response.id # "Accepted" => response.StatusCode # 200

C22_Witness ==
    /\ Responded
    /\ processed # <<>> /\ processed[1].ret = "ErrFull" /\ processed[1].batch # <<>>
    /\ response.id = "FullQueue"

\* The credential header is absent or the authenticator refuses the key.
Unauthenticated == request.key \in {"", "invalid"}

\* C23: a request without the credential header or with a refused credential
\* is answered Unauthorized, whatever its method; an authenticated request
\* whose method is not POST is answered MethodNotAllowed; for both the body is
\* never decoded and ProcessBatch is never called.
C23_GatingOrder ==
    /\ (Unauthenticated \/ request.method # "POST") =>
            (~bodyDecoded /\ processed = <<>> /\ firehose = NoFirehose /\ logBatch = <<>>)
    /\ (Responded /\ Unauthenticated) => response.id = "Unauthorized"
    /\ (Responded /\ ~Unauthenticated /\ request.method # "POST") =>
            response.id = "MethodNotAllowed"
    /\ (Responded /\ response.id \in {"Unauthorized", "MethodNotAllowed"}) =>
            (Unauthenticated \/ request.method # "POST")

C23_Witness ==
    /\ Responded
    /\ request.key = "invalid" /\ request.method = "GET"
    /\ request.body.json /\ request.body.value.Records # <<>>
    /\ response.id = "Unauthorized"

\* ------------------------------------------------ pooled reader claims
\* C31: a pooled reader that was attached to a bulk item is put back into the
\* pool only by a Read that reports end-of-stream, never while it has unread
\* document bytes, and at most once per checkout, so that no two events use
\* one reader at the same time.  In every state no reader is in the pool twice
\* or was Put twice since it was taken, a reader in the pool has no unread
\* bytes and no event works with it, and no two events work with the same
\* reader; and every step that puts a reader into the pool is a Read, for the
\* item that carries the reader, that found no unread byte.
C31_PutOnlyAtEOFOncePerCheckout ==
    /\ [](\A r \in Readers :
            /\ InPool(pool, r) <= 1
            /\ puts[r] <= 1
            /\ InPool(pool, r) > 0 =>
                  /\ buf[r] = 0
                  /\ \A p \in Procs :
                        epc[p] \in {"got", "encoded", "attached"} => rdr[p] # r)
    /\ [](\A p, q \in Procs :
            (/\ p # q
             /\ epc[p] \in {"got", "encoded", "attached"}
             /\ epc[q] \in {"got", "encoded", "attached"}) => rdr[p] # rdr[q])
    /\ [][\A r \in Readers :
            InPool(pool', r) > InPool(pool, r) =>
                \E p \in Procs :
                    /\ epc[p] = "attached" /\ rdr[p] = r
                    /\ buf[r] = 0 /\ buf'[r] = 0
                    /\ epc'[p] = "consumed"]_vars

\* A reader was Put at end-of-stream and taken again: the item of one caller
\* still carries it while the event of another caller has unread bytes in it.
C31_Witness ==
    \E p, q \in Procs :
        /\ p # q
        /\ epc[q] = "consumed" /\ epc[p] = "attached"
        /\ rdr[p] = rdr[q]
        /\ buf[rdr[p]] > 0

====
